---- MODULE Spec2Model ----
(***************************************************************************)
(* Patient Vitals service (src/main.py): a FastAPI application that stores *)
(* vitals documents in a MongoDB collection, lists a patient's documents   *)
(* newest first, and renders the newest one as a PDF report written by a   *)
(* worker thread under the reports directory.                              *)
(*                                                                         *)
(* Optional[T] values are sequences of length at most one: None is <<>>,   *)
(* a present value x is <<x>>.  A JSON field of a request body is <<>>     *)
(* when absent or null, and a pair <<kind, value>> otherwise.              *)
(* Points in time are natural numbers counting the clock's smallest unit   *)
(* (a microsecond of datetime); UsPerMs of them make one millisecond and   *)
(* MsPerSec milliseconds make one second.                                  *)
(***************************************************************************)
EXTENDS Integers, Sequences, FiniteSets, TLC

VARIABLES
    store,      \* db.vitals: the documents in insertion (natural) order
    clock,      \* the server's UTC clock, read by datetime.utcnow()
    created,    \* history: number of successful creates per patient id
    reqs,       \* the PDF requests in flight: position, Vitals model, path
    files,      \* the reports directory: path -> file content
    resp        \* the response sent last

vars == <<store, clock, created, reqs, files, resp>>

----------------------------------------------------------------------------
(* Bounds of the model *)

MaxRecords == 2
MaxClock == 4
UsPerMs == 2
MsPerSec == 2

PatientIds == {"p1", "p2"}
Reqs == {"r1", "r2"}

None == <<>>
Some(x) == <<x>>

UsPerSec == UsPerMs * MsPerSec
Instants == 0..MaxClock
Seconds == 0..(MaxClock \div UsPerSec)

----------------------------------------------------------------------------
(* Request bodies of POST /vitals *)

JsonInts == {<<"int", 72>>, <<"bad", 0>>}
JsonNoInt == {None}
JsonVitalSigns == {None, <<"int", 0>>, <<"int", 72>>}
JsonTimes == {None} \cup {<<"datetime", t>> : t \in Instants}
JsonIds == {None} \cup {<<"str", p>> : p \in PatientIds}

\* The bodies sent to the running service: the well-formed ones, and two
\* malformed ones for each of them (patient_id missing, heart_rate not an
\* integer) with the timestamp left out.
GoodBodies ==
    [patient_id : JsonIds \ {None}, patient_name : {None}, timestamp : JsonTimes,
     heart_rate : JsonInts \ {<<"bad", 0>>}, blood_pressure : {None},
     respiratory_rate : JsonNoInt, temperature_c : {None},
     oxygen_saturation : JsonNoInt, notes : {None}]

BadBodies ==
    {[b EXCEPT !.patient_id = None] : b \in {g \in GoodBodies : g.timestamp = None}}
    \cup {[b EXCEPT !.heart_rate = <<"bad", 0>>] : b \in {g \in GoodBodies : g.timestamp = None}}

RawBodies == GoodBodies \cup BadBodies

\* The bodies of the readings the renderer is applied to: every integer
\* vital sign absent, zero or positive, with and without blood pressure.
RenderBodies ==
    [patient_id : JsonIds \ {None}, patient_name : {None}, timestamp : JsonTimes,
     heart_rate : JsonVitalSigns,
     blood_pressure : {None, Some([systolic |-> Some(120), diastolic |-> Some(80)])},
     respiratory_rate : JsonVitalSigns, temperature_c : {None},
     oxygen_saturation : JsonVitalSigns, notes : {None}]

\* pydantic: a present field must be coercible to its declared type.
Coercible(x) == x = None \/ x[1] # "bad"

Coerce(x) == IF x = None THEN None ELSE Some(x[2])

ValidateLax(raw) ==
    [ok |-> raw.patient_id # None,
     v |-> [patient_id |-> IF raw.patient_id = None THEN "" ELSE raw.patient_id[2],
            patient_name |-> raw.patient_name,
            timestamp |-> IF Coercible(raw.timestamp) THEN Coerce(raw.timestamp) ELSE None,
            heart_rate |-> IF Coercible(raw.heart_rate) THEN Coerce(raw.heart_rate) ELSE None,
            blood_pressure |-> raw.blood_pressure,
            respiratory_rate |-> IF Coercible(raw.respiratory_rate)
                                 THEN Coerce(raw.respiratory_rate) ELSE None,
            temperature_c |-> raw.temperature_c,
            oxygen_saturation |-> IF Coercible(raw.oxygen_saturation)
                                  THEN Coerce(raw.oxygen_saturation) ELSE None,
            notes |-> raw.notes]]

\* class Vitals(BaseModel): patient_id is required, every other field is
\* Optional with default None; a failed validation answers 422 before the
\* handler runs.
Validate(raw) ==
    [ok |-> /\ raw.patient_id # None
            /\ Coercible(raw.timestamp)
            /\ Coercible(raw.heart_rate)
            /\ Coercible(raw.respiratory_rate)
            /\ Coercible(raw.oxygen_saturation),
     v |-> [patient_id |-> IF raw.patient_id = None THEN "" ELSE raw.patient_id[2],
            patient_name |-> raw.patient_name,
            timestamp |-> Coerce(raw.timestamp),
            heart_rate |-> Coerce(raw.heart_rate),
            blood_pressure |-> raw.blood_pressure,
            respiratory_rate |-> Coerce(raw.respiratory_rate),
            temperature_c |-> raw.temperature_c,
            oxygen_saturation |-> Coerce(raw.oxygen_saturation),
            notes |-> raw.notes]]

----------------------------------------------------------------------------
(* Conversions *)

\* str(ObjectId): the hexadecimal rendering of the identifier.
ObjectIdStr(id) == <<"oid", id>>

\* datetime.isoformat(): keeps every digit down to the microsecond.
IsoFormat(t) == <<"iso", t>>

\* strftime("%Y%m%d%H%M%S"): the digits down to the second; what is below
\* the second is dropped.
StrfSeconds(t) == t \div UsPerSec

\* A BSON date has millisecond precision: the driver drops what is below
\* the millisecond when it encodes a datetime.
BsonDate(ts) == IF ts = None THEN None ELSE Some((ts[1] \div UsPerMs) * UsPerMs)

\* The sort key of a document: a null timestamp sorts before every date.
TsKey(d) == IF d.timestamp = None THEN -1 ELSE d.timestamp[1]

----------------------------------------------------------------------------
(* The collection db.vitals *)

\* The identifier insert_one assigns: distinct from every stored one.
NewObjectId(coll) == Len(coll) + 1

StoredDoc(coll, doc) ==
    [_id |-> NewObjectId(coll),
     patient_id |-> doc.patient_id,
     patient_name |-> doc.patient_name,
     timestamp |-> BsonDate(doc.timestamp),
     heart_rate |-> doc.heart_rate,
     blood_pressure |-> doc.blood_pressure,
     respiratory_rate |-> doc.respiratory_rate,
     temperature_c |-> doc.temperature_c,
     oxygen_saturation |-> doc.oxygen_saturation,
     notes |-> doc.notes]

\* replace_one({"patient_id": ...}, doc, upsert=True) in place of insert_one.
UpsertByPatient(coll, doc) ==
    IF \E i \in 1..Len(coll) : coll[i].patient_id = doc.patient_id
    THEN [i \in 1..Len(coll) |->
            IF coll[i].patient_id = doc.patient_id
            THEN [StoredDoc(coll, doc) EXCEPT !._id = coll[i]._id]
            ELSE coll[i]]
    ELSE Append(coll, StoredDoc(coll, doc))

\* db.vitals.insert_one(doc)
InsertOne(coll, doc) == Append(coll, StoredDoc(coll, doc))

FindAll(coll, pid) == coll

\* db.vitals.find({"patient_id": patient_id}): the matching documents
Find(coll, pid) == SelectSeq(coll, LAMBDA d : d.patient_id = pid)

Orderings(docs) ==
    {f \in [1..Len(docs) -> 1..Len(docs)] :
        \A i, j \in 1..Len(docs) : i # j => f[i] # f[j]}

SortByTimestampAsc(docs) ==
    {[i \in 1..Len(docs) |-> docs[f[i]]] : f \in
        {g \in Orderings(docs) :
            \A i, j \in 1..Len(docs) : i < j => TsKey(docs[g[i]]) <= TsKey(docs[g[j]])}}

\* cursor.sort("timestamp", -1): the orders the database may deliver; the
\* order among documents of equal timestamp is not determined.
SortByTimestampDesc(docs) ==
    {[i \in 1..Len(docs) |-> docs[f[i]]] : f \in
        {g \in Orderings(docs) :
            \A i, j \in 1..Len(docs) : i < j => TsKey(docs[g[i]]) >= TsKey(docs[g[j]])}}

FindOneUnsorted(coll, pid) ==
    IF Find(coll, pid) = <<>> THEN {None} ELSE {Some(Find(coll, pid)[1])}

\* db.vitals.find_one({"patient_id": patient_id}, sort=[("timestamp", -1)]):
\* None, or the first document of the sorted cursor.
FindOneLatest(coll, pid) ==
    IF Find(coll, pid) = <<>>
    THEN {None}
    ELSE {Some(s[1]) : s \in SortByTimestampDesc(Find(coll, pid))}

----------------------------------------------------------------------------
(* The responses *)

Initial == [op |-> "none", status |-> 0, body |-> None]

NotFound(op, detail) == [op |-> op, status |-> 404, body |-> [detail |-> detail]]

Unprocessable == [op |-> "create", status |-> 422, body |-> [detail |-> "validation error"]]

\* JSONResponse({"message": ..., "patient_id": ..., "id": ...}): a response
\* object returned by the handler carries its own status code, 200.
Saved(pid, id) ==
    [op |-> "create", status |-> 200,
     body |-> [message |-> "Vitals saved", patient_id |-> pid, id |-> ObjectIdStr(id)]]

\* The per-request copy of a listed document: ObjectId -> str and
\* datetime -> isoformat.
JsonDoc(d) ==
    [d EXCEPT !._id = ObjectIdStr(d._id),
              !.timestamp = IF d.timestamp = None THEN None ELSE IsoFormat(d.timestamp[1])]

ListAlwaysOk(docs) == [op |-> "list", status |-> 200, body |-> docs]

\* if not docs: raise HTTPException(404); return docs
ListResponse(docs) ==
    IF docs = <<>>
    THEN NotFound("list", "No vitals for that patient")
    ELSE [op |-> "list", status |-> 200, body |-> docs]

----------------------------------------------------------------------------
(* POST /vitals *)

KeepTimestamp(ts, now) == ts

\* if v.timestamp is None: v.timestamp = datetime.utcnow()
DefaultTimestamp(ts, now) == IF ts = None THEN Some(now) ELSE ts

PostVitals(raw) ==
    LET val == Validate(raw)
        v == [val.v EXCEPT !.timestamp = DefaultTimestamp(val.v.timestamp, clock)]
    IN  IF ~val.ok
        THEN /\ resp' = Unprocessable
             /\ UNCHANGED <<store, clock, created, reqs, files>>
        ELSE /\ Len(store) < MaxRecords
             /\ store' = InsertOne(store, v)
             /\ created' = [created EXCEPT ![v.patient_id] = @ + 1]
             /\ resp' = Saved(v.patient_id, store'[Len(store')]._id)
             /\ UNCHANGED <<clock, reqs, files>>

----------------------------------------------------------------------------
(* GET /vitals/{patient_id} *)

GetVitals(pid) ==
    /\ \E docs \in SortByTimestampDesc(Find(store, pid)) :
          resp' = ListResponse([i \in 1..Len(docs) |-> JsonDoc(docs[i])])
    /\ UNCHANGED <<store, clock, created, reqs, files>>

----------------------------------------------------------------------------
(* The PDF renderer *)

REPORTS_DIR == "reports"

NA == <<"N/A">>

\* str(value or "N/A") for a number: None and 0 are both falsy.
NumberOrNA(opt) == IF opt = None \/ opt[1] = 0 THEN NA ELSE <<"num", opt[1]>>

\* value or default, for a string: None and "" are both falsy.
StringOr(opt, default) == IF opt = None \/ opt[1] = "" THEN default ELSE opt[1]

\* f"{systolic}/{diastolic} mmHg" when the nested model is present
BloodPressureRow(bp) ==
    IF bp = None THEN NA ELSE <<"bp", bp[1].systolic, bp[1].diastolic, "mmHg">>

\* The path build_vitals_pdf writes: reports/<patient_id>_<YYYYmmddHHMMSS>.pdf.
\* The time part has a fixed width, so the name determines both parts.
ReportPath(patient_id, v, now) ==
    [dir |-> REPORTS_DIR,
     fname |-> <<patient_id, "_",
                 StrfSeconds(IF v.timestamp # None THEN v.timestamp[1] ELSE now), ".pdf">>]

Basename(path) == path.fname

\* What build_vitals_pdf draws on the page.
Page(patient_id, v) ==
    [title |-> <<"Vitals Report - ", StringOr(v.patient_name, patient_id)>>,
     patient_id |-> patient_id,
     timestamp |-> IF v.timestamp # None THEN IsoFormat(v.timestamp[1]) ELSE NA,
     heart_rate |-> NumberOrNA(v.heart_rate),
     blood_pressure |-> BloodPressureRow(v.blood_pressure),
     respiratory_rate |-> NumberOrNA(v.respiratory_rate),
     temperature_c |-> NumberOrNA(v.temperature_c),
     oxygen_saturation |-> NumberOrNA(v.oxygen_saturation),
     notes |-> StringOr(v.notes, "-")]

Paths == [dir : {REPORTS_DIR}, fname : {<<p, "_", s, ".pdf">> : p \in PatientIds, s \in Seconds}]

NoFile == <<>>
Truncated == <<"opened">>
Written(page) == <<"pdf", page>>

----------------------------------------------------------------------------
(* GET /vitals/{patient_id}/pdf *)

Idle == [pc |-> "idle", patient_id |-> "", v |-> None, path |-> None]

\* doc.pop("_id", None); Vitals(**doc).  A stored timestamp is a native
\* date, which the driver hands back as a datetime, so the branch that
\* parses a string timestamp leaves it as it is.
VitalsOfDoc(doc) ==
    [patient_id |-> doc.patient_id,
     patient_name |-> doc.patient_name,
     timestamp |-> doc.timestamp,
     heart_rate |-> doc.heart_rate,
     blood_pressure |-> doc.blood_pressure,
     respiratory_rate |-> doc.respiratory_rate,
     temperature_c |-> doc.temperature_c,
     oxygen_saturation |-> doc.oxygen_saturation,
     notes |-> doc.notes]

\* find_one, the 404, the normalisation, and asyncio.to_thread handing
\* build_vitals_pdf to a worker thread; the request is suspended.
GetVitalsPdf(r, pid) ==
    /\ reqs[r].pc = "idle"
    /\ \E found \in FindOneLatest(store, pid) :
          IF found = None
          THEN /\ resp' = NotFound("pdf", "No vitals to make PDF")
               /\ UNCHANGED reqs
          ELSE /\ reqs' = [reqs EXCEPT ![r] =
                             [pc |-> "dispatched", patient_id |-> pid,
                              v |-> Some(VitalsOfDoc(found[1])), path |-> None]]
               /\ UNCHANGED resp
    /\ UNCHANGED <<store, clock, created, files>>

\* The worker thread: the path, the drawing into the canvas, and c.save()
\* opening the file for writing, which empties it.
BuildVitalsPdfOpen(r) ==
    /\ reqs[r].pc = "dispatched"
    /\ LET path == ReportPath(reqs[r].patient_id, reqs[r].v[1], clock)
       IN  /\ reqs' = [reqs EXCEPT ![r].pc = "writing", ![r].path = Some(path)]
           /\ files' = [files EXCEPT ![path] = Truncated]
    /\ UNCHANGED <<store, clock, created, resp>>

\* The worker thread: c.save() writes the page and closes the file;
\* build_vitals_pdf returns the path.
BuildVitalsPdfSave(r) ==
    /\ reqs[r].pc = "writing"
    /\ reqs' = [reqs EXCEPT ![r].pc = "saved"]
    /\ files' = [files EXCEPT ![reqs[r].path[1]] =
                    Written(Page(reqs[r].patient_id, reqs[r].v[1]))]
    /\ UNCHANGED <<store, clock, created, resp>>

\* The request resumes with the path and FileResponse streams the file.
GetVitalsPdfRespond(r) ==
    /\ reqs[r].pc = "saved"
    /\ resp' = [op |-> "pdf", status |-> 200,
                filename |-> Basename(reqs[r].path[1]),
                body |-> files[reqs[r].path[1]]]
    /\ reqs' = [reqs EXCEPT ![r] = Idle]
    /\ UNCHANGED <<store, clock, created, files>>

----------------------------------------------------------------------------
(* The server's clock *)

Tick ==
    /\ clock < MaxClock
    /\ clock' = clock + 1
    /\ UNCHANGED <<store, created, reqs, files, resp>>

----------------------------------------------------------------------------
(* The service: the state after startup, and every request.  The event loop *)
(* runs the handlers; Spec serves one PDF request at a time, SpecConc lets  *)
(* the PDF requests of Reqs overlap.                                        *)

Init ==
    /\ store = <<>>
    /\ clock = 0
    /\ created = [p \in PatientIds |-> 0]
    /\ reqs = [r \in Reqs |-> Idle]
    /\ files = [p \in Paths |-> NoFile]
    /\ resp = Initial

Next ==
    \/ Tick
    \/ \E raw \in RawBodies : PostVitals(raw)
    \/ \E pid \in PatientIds : GetVitals(pid)
    \/ \E pid \in PatientIds : GetVitalsPdf("r1", pid)
    \/ BuildVitalsPdfOpen("r1")
    \/ BuildVitalsPdfSave("r1")
    \/ GetVitalsPdfRespond("r1")

Spec == Init /\ [][Next]_vars

NextConc ==
    \/ Tick
    \/ \E raw \in RawBodies : PostVitals(raw)
    \/ \E pid \in PatientIds : GetVitals(pid)
    \/ \E r \in Reqs, pid \in PatientIds : GetVitalsPdf(r, pid)
    \/ \E r \in Reqs : BuildVitalsPdfOpen(r)
    \/ \E r \in Reqs : BuildVitalsPdfSave(r)
    \/ \E r \in Reqs : GetVitalsPdfRespond(r)

SpecConc == Init /\ [][NextConc]_vars

\* The renderer applied to every reading of RenderBodies: the store holds
\* one reading created from such a body.
InitRender ==
    /\ \E raw \in RenderBodies :
          LET v == [Validate(raw).v EXCEPT
                       !.timestamp = DefaultTimestamp(Validate(raw).v.timestamp, 0)]
          IN  /\ store = InsertOne(<<>>, v)
              /\ created = [p \in PatientIds |-> IF p = v.patient_id THEN 1 ELSE 0]
    /\ clock = 0
    /\ reqs = [r \in Reqs |-> Idle]
    /\ files = [p \in Paths |-> NoFile]
    /\ resp = Initial

NextRender ==
    \/ \E pid \in PatientIds : GetVitals(pid)
    \/ \E pid \in PatientIds : GetVitalsPdf("r1", pid)
    \/ BuildVitalsPdfOpen("r1")
    \/ BuildVitalsPdfSave("r1")
    \/ GetVitalsPdfRespond("r1")

SpecRender == InitRender /\ [][NextRender]_vars

----------------------------------------------------------------------------
(* Vocabulary of the properties, stated on the state alone *)

RecordsOf(pid) == {i \in 1..Len(store) : store[i].patient_id = pid}

WellFormed(raw) ==
    /\ raw.patient_id # None
    /\ \A f \in {"timestamp", "heart_rate", "respiratory_rate", "oxygen_saturation"} :
          raw[f] = None \/ raw[f][1] # "bad"

IsReport(file) == file # NoFile /\ file[1] = "pdf"

MsFloor(t) == t - (t % UsPerMs)

ListStep == \E pid \in PatientIds : GetVitals(pid)

PdfStep ==
    \E r \in Reqs :
        \/ \E pid \in PatientIds : GetVitalsPdf(r, pid)
        \/ BuildVitalsPdfOpen(r)
        \/ BuildVitalsPdfSave(r)
        \/ GetVitalsPdfRespond(r)

----------------------------------------------------------------------------
(* C1: the list operation answers 404 exactly when the store holds no      *)
(* record of the patient; it never answers 200 with an empty array and     *)
(* never 404 while a record of the patient is stored.                      *)
ListNotFoundIffNoRecords ==
    [][\A pid \in PatientIds :
          GetVitals(pid) =>
              /\ resp'.op = "list"
              /\ resp'.status \in {200, 404}
              /\ resp'.status = 404 <=> RecordsOf(pid) = {}
              /\ resp'.status = 200 => Len(resp'.body) > 0]_vars

ListNotFoundSeen ==
    /\ resp.op = "list"
    /\ resp.status = 404
    /\ Len(store) > 0
    /\ \E pid \in PatientIds : RecordsOf(pid) = {}

(* C2: for a patient whose stored records have pairwise distinct           *)
(* timestamps, the list operation returns exactly those records, ordered   *)
(* by timestamp strictly descending, whatever the order of creation.       *)
ListNewestFirst ==
    [][\A pid \in PatientIds :
          (/\ GetVitals(pid)
           /\ Cardinality(RecordsOf(pid)) >= 2
           /\ \A i, j \in RecordsOf(pid) : i # j => store[i].timestamp # store[j].timestamp)
          =>
          /\ resp'.status = 200
          /\ {resp'.body[k]._id : k \in 1..Len(resp'.body)} =
                {<<"oid", store[i]._id>> : i \in RecordsOf(pid)}
          /\ \A k, l \in 1..Len(resp'.body) :
                k < l => resp'.body[k].timestamp[2] > resp'.body[l].timestamp[2]]_vars

ListReorderedSeen ==
    /\ resp.op = "list"
    /\ resp.status = 200
    /\ Len(resp.body) >= 2
    /\ resp.body[1]._id[2] > resp.body[2]._id[2]
    /\ resp.body[1].timestamp[2] > resp.body[2].timestamp[2]

(* C3: PDF generation answers 404 when the store holds no record of the    *)
(* patient; otherwise it hands the renderer a record of that patient whose *)
(* timestamp is the maximum among the patient's stored records, the page   *)
(* written is of that record, and the request answers 200.                 *)
PdfRendersLatest ==
    [][/\ \A r \in Reqs, pid \in PatientIds :
             GetVitalsPdf(r, pid) =>
                 IF RecordsOf(pid) = {}
                 THEN resp'.op = "pdf" /\ resp'.status = 404 /\ reqs' = reqs
                 ELSE /\ resp' = resp
                      /\ reqs'[r].pc = "dispatched"
                      /\ reqs'[r].patient_id = pid
                      /\ \E i \in RecordsOf(pid) :
                            /\ reqs'[r].v[1] =
                                  [f \in DOMAIN reqs'[r].v[1] |-> store[i][f]]
                            /\ \A j \in RecordsOf(pid) :
                                  store[j].timestamp[1] <= store[i].timestamp[1]
       /\ \A r \in Reqs :
             BuildVitalsPdfSave(r) =>
                 LET file == files'[reqs[r].path[1]]
                 IN  /\ IsReport(file)
                     /\ file[2].patient_id = reqs[r].patient_id
                     /\ file[2].timestamp = <<"iso", reqs[r].v[1].timestamp[1]>>
       /\ \A r \in Reqs :
             GetVitalsPdfRespond(r) =>
                 /\ resp'.op = "pdf"
                 /\ resp'.status = 200
                 /\ resp'.filename[1] = reqs[r].patient_id]_vars

PdfOfLaterCreatedNewestSeen ==
    \E r \in Reqs :
        /\ reqs[r].pc = "saved"
        /\ \E i, j \in RecordsOf(reqs[r].patient_id) :
              /\ i < j
              /\ store[i].timestamp[1] < store[j].timestamp[1]
              /\ reqs[r].v[1].timestamp = store[j].timestamp

(* C4, as stated: a create without timestamp stores the clock's value and  *)
(* the returned confirmation carries that same timestamp.                  *)
CreateReturnsClockTimestamp ==
    [][\A raw \in RawBodies :
          (raw.timestamp = None /\ WellFormed(raw) /\ PostVitals(raw)) =>
              /\ store'[Len(store')].timestamp = <<clock>>
              /\ "timestamp" \in DOMAIN resp'.body
              /\ resp'.body.timestamp = <<"iso", clock>>]_vars

(* C4, amended: a create without timestamp stores the clock's value cut to *)
(* the millisecond, never null; the confirmation carries message,          *)
(* patient_id and id only; a list shows every record's stored timestamp;   *)
(* no stored record has a null timestamp.                                  *)
CreateStoresClockTimestamp ==
    /\ [](\A i \in 1..Len(store) : store[i].timestamp # None)
    /\ [][/\ \A raw \in RawBodies :
                (raw.timestamp = None /\ WellFormed(raw) /\ PostVitals(raw)) =>
                    /\ Len(store') = Len(store) + 1
                    /\ store'[Len(store')].timestamp = <<MsFloor(clock)>>
                    /\ resp'.status = 200
                    /\ DOMAIN resp'.body = {"message", "patient_id", "id"}
                    /\ resp'.body.id = <<"oid", store'[Len(store')]._id>>
          /\ \A pid \in PatientIds :
                (GetVitals(pid) /\ resp'.status = 200) =>
                    \A k \in 1..Len(resp'.body) :
                        \E i \in RecordsOf(pid) :
                            /\ resp'.body[k]._id = <<"oid", store[i]._id>>
                            /\ resp'.body[k].timestamp = <<"iso", store[i].timestamp[1]>>]_vars

ClockTimestampCutSeen ==
    /\ resp.op = "create"
    /\ resp.status = 200
    /\ clock % UsPerMs # 0
    /\ store[Len(store)].timestamp = <<MsFloor(clock)>>

(* C5: the stored records are immutable and the store only grows: every    *)
(* step keeps each stored record in place and unchanged, and the list and  *)
(* PDF operations leave the store exactly as it was.                       *)
StoreAppendOnly ==
    [][/\ Len(store') >= Len(store)
       /\ \A i \in 1..Len(store) : store'[i] = store[i]
       /\ (ListStep \/ PdfStep) => store' = store]_vars

ReadsAfterTwoCreatesSeen ==
    /\ Len(store) >= 2
    /\ store[1].patient_id = store[2].patient_id
    /\ resp.op = "pdf"
    /\ resp.status = 200

(* C6: a failed request never changes the stored records: a malformed      *)
(* create answers 422 and inserts nothing, and a list or PDF request       *)
(* answering 404 leaves the store as it was.                               *)
FailedRequestKeepsStore ==
    [][/\ \/ resp'.status = 422 /\ store' = store
          \/ \A raw \in RawBodies : ~(~WellFormed(raw) /\ PostVitals(raw))
       /\ \A pid \in PatientIds :
             (GetVitals(pid) /\ resp'.status = 404) => store' = store
       /\ \A r \in Reqs, pid \in PatientIds :
             (GetVitalsPdf(r, pid) /\ RecordsOf(pid) = {}) =>
                 resp'.status = 404 /\ store' = store]_vars

RejectedCreateSeen ==
    /\ resp.op = "create"
    /\ resp.status = 422
    /\ Len(store) > 0

(* C7: a report file is never replaced by the report of a different        *)
(* reading: when a PDF generation opens a path that holds a report, that   *)
(* report is of the same patient id and the same timestamp.                *)
ReportNeverReplaced ==
    [][\A r \in Reqs :
          (BuildVitalsPdfOpen(r) /\ IsReport(files[reqs'[r].path[1]])) =>
              LET old == files[reqs'[r].path[1]][2]
              IN  /\ old.patient_id = reqs[r].patient_id
                  /\ old.timestamp = <<"iso", reqs[r].v[1].timestamp[1]>>]_vars

(* C8: a PDF request streams its report only after its own worker thread   *)
(* has finished writing, and at that moment the file is completely written *)
(* and no worker thread of another request is writing the same path.       *)
StreamsCompleteFile ==
    [][\A r \in Reqs :
          GetVitalsPdfRespond(r) =>
              /\ reqs[r].pc = "saved"
              /\ IsReport(files[reqs[r].path[1]])
              /\ IsReport(resp'.body)
              /\ \A o \in Reqs \ {r} :
                    ~(reqs[o].pc = "writing" /\ reqs[o].path = reqs[r].path)]_vars

(* C9: in the generated PDF each integer vital-sign row shows the record's *)
(* value whenever the record carries one, 0 included, and the absent       *)
(* marker only when the field is absent.                                   *)
IntegerRowsShowValue ==
    \A r \in Reqs :
        reqs[r].pc = "saved" =>
            /\ IsReport(files[reqs[r].path[1]])
            /\ \A f \in {"heart_rate", "respiratory_rate", "oxygen_saturation"} :
                  files[reqs[r].path[1]][2][f] =
                      IF reqs[r].v[1][f] = None
                      THEN <<"N/A">>
                      ELSE <<"num", reqs[r].v[1][f][1]>>

(* C10: every successful create inserts exactly one record under an        *)
(* identifier no stored record has, whatever its patient_id; after N       *)
(* successful creates for a patient the list returns exactly N records,    *)
(* each of that patient and each one of the stored records, none twice.    *)
CreatesAllListed ==
    [][/\ \A raw \in RawBodies :
             (WellFormed(raw) /\ PostVitals(raw)) =>
                 /\ Len(store') = Len(store) + 1
                 /\ \A i \in 1..Len(store) :
                       store'[i] = store[i] /\ store[i]._id # store'[Len(store')]._id
                 /\ store'[Len(store')].patient_id = raw.patient_id[2]
                 /\ resp'.status = 200
       /\ \A pid \in PatientIds :
             GetVitals(pid) =>
                 IF created[pid] = 0
                 THEN resp'.status = 404
                 ELSE /\ resp'.status = 200
                      /\ Len(resp'.body) = created[pid]
                      /\ \A k \in 1..Len(resp'.body) :
                            /\ resp'.body[k].patient_id = pid
                            /\ \E i \in RecordsOf(pid) :
                                  /\ resp'.body[k]._id = <<"oid", store[i]._id>>
                                  /\ \A f \in DOMAIN store[i] \ {"_id", "timestamp"} :
                                        resp'.body[k][f] = store[i][f]
                      /\ \A k, l \in 1..Len(resp'.body) :
                            k # l => resp'.body[k]._id # resp'.body[l]._id]_vars

TwoCreatesListedSeen ==
    /\ resp.op = "list"
    /\ resp.status = 200
    /\ Len(resp.body) = 2
    /\ created[resp.body[1].patient_id] = 2
    /\ resp.body[1].timestamp = resp.body[2].timestamp

====
